---- MODULE Spec2Model ----
(***************************************************************************)
(* SMART Log Plotter (src/src/App.tsx): the log parser parseSmartLog and   *)
(* the React state of App that consumes its result.                        *)
(*                                                                         *)
(* Representation.  A text is the sequence of its lines (what              *)
(* text.split(/\r?\n/) yields); a line is the sequence of its raw fields   *)
(* (what line.split(";") yields), each field a string.  JavaScript's       *)
(* number | null is the sequence <<>> (null / NaN) or <<n>>.  Dates are    *)
(* resolved in a UTC local time zone; the timestamps are taken in January  *)
(* 1970 so that their milliseconds are small integers.  The status texts   *)
(* are written with "..." for the ellipsis character of the source.        *)
(***************************************************************************)
EXTENDS Integers, Sequences, FiniteSets, Bags, TLC

VARIABLES
    chosen,         \* the file the input element holds (e.target.files[0]): <<>> or <<text>>
    pending,        \* texts of the files whose f.text() promise is not yet resolved
    parsed,         \* useState<Parsed | null>: <<>> or <<ParseResult>>
    heap,           \* the array objects "attrs" (parsed.attrs) and "sel" (a selection array)
    selectedAttrs,  \* useState<string[]>: the array object the state refers to
    status,         \* useState<string>
    chartData,      \* useMemo: the wide dataset of the last render
    lastText,       \* the text handed to the last parseSmartLog call: <<>> or <<text>>
    rejected        \* whether an onFileChange promise was rejected by an exception

vars == <<chosen, pending, parsed, heap, selectedAttrs, status, chartData, lastText, rejected>>

----------------------------------------------------------------------------
(* Bounds of the model *)

MaxLines == 3      \* lines of a text handed to the parser
MaxPending == 2    \* file reads in flight at once

----------------------------------------------------------------------------
(* JavaScript values *)

Null == <<>>
Some(x) == <<x>>
Val(o) == o[1]

Min2(a, b) == IF a <= b THEN a ELSE b
Max2(a, b) == IF a >= b THEN a ELSE b

\* String.prototype.trim on the fields of the model: leading and trailing
\* blanks, tabs and carriage returns are removed.
TrimTable ==
    (" " :> "") @@ ("\t" :> "") @@ ("\t1" :> "1") @@ (" 67" :> "67") @@
    (" 5113173 " :> "5113173") @@ ("\t3" :> "3") @@ (" N/A" :> "N/A") @@
    (" 1970-01-01 00:00:01" :> "1970-01-01 00:00:01")

Trim(s) == IF s \in DOMAIN TrimTable THEN TrimTable[s] ELSE s

\* String.prototype.replace(" ", "T"): the first blank only.
ReplaceTable ==
    ("1970-01-01 00:00:00" :> "1970-01-01T00:00:00") @@
    ("1970-01-01 00:00:01" :> "1970-01-01T00:00:01") @@
    ("1970-01-01 00:00:02" :> "1970-01-01T00:00:02") @@
    ("N/A x" :> "N/AT x")

ReplaceFirstBlank(s) == IF s \in DOMAIN ReplaceTable THEN ReplaceTable[s] ELSE s

\* new Date(s).getTime(): ISO date-times (local time, here UTC) and ISO dates
\* (always UTC) give milliseconds since the epoch, anything else NaN.
DateTable ==
    ("1970-01-01T00:00:00" :> 0) @@
    ("1970-01-01T00:00:01" :> 1000) @@
    ("1970-01-01T00:00:02" :> 2000) @@
    ("1970-01-02" :> 86400000)

DateGetTime(s) == IF s \in DOMAIN DateTable THEN Some(DateTable[s]) ELSE Null

\* Number(s) on a non-empty trimmed field: <<n>>, or <<>> for NaN.
NumberTable ==
    ("0" :> 0) @@ ("1" :> 1) @@ ("2" :> 2) @@ ("3" :> 3) @@ ("5" :> 5) @@
    ("7" :> 7) @@ ("8" :> 8) @@ ("9" :> 9) @@ ("10" :> 10) @@ ("30" :> 30) @@
    ("40" :> 40) @@ ("66" :> 66) @@ ("67" :> 67) @@ ("68" :> 68) @@
    ("96" :> 96) @@ ("100" :> 100) @@ ("194" :> 194) @@
    ("5113173" :> 5113173) @@ ("01" :> 1)

Number(s) == IF s \in DOMAIN NumberTable THEN Some(NumberTable[s]) ELSE Null

IsFinite(n) == n # Null

\* A canonical array index ("integer-like" property key): Object.keys lists
\* these first, in ascending numeric order.
IsArrayIndex(s) == s \in DOMAIN NumberTable /\ s # "01"

\* Property names an empty object literal inherits from Object.prototype.
ObjectPrototypeNames ==
    {"constructor", "__proto__", "toString", "valueOf", "hasOwnProperty"}

----------------------------------------------------------------------------
(* parseTimestampToMs, splitFields *)

parseTimestampToMs(s) == DateGetTime(ReplaceFirstBlank(Trim(s)))

RECURSIVE FilterNonEmpty(_)
FilterNonEmpty(s) ==
    IF s = <<>> THEN <<>>
    ELSE IF Head(s) # "" THEN <<Head(s)>> \o FilterNonEmpty(Tail(s))
    ELSE FilterNonEmpty(Tail(s))

splitFields(line) == FilterNonEmpty([i \in 1..Len(line) |-> Trim(line[i])])

\* line.trim().length > 0 for a line given by its raw fields
IsBlankLine(line) == Len(line) = 1 /\ Trim(line[1]) = ""

RECURSIVE NonBlankLines(_)
NonBlankLines(text) ==
    IF text = <<>> THEN <<>>
    ELSE IF IsBlankLine(Head(text)) THEN NonBlankLines(Tail(text))
    ELSE <<Head(text)>> \o NonBlankLines(Tail(text))

----------------------------------------------------------------------------
(* Array.prototype.sort(cmp): a stable sort.  A NaN result of the          *)
(* comparison function counts as 0 (the comparators below return 0 in     *)
(* that case).  With a consistent comparison function every stable sort   *)
(* gives the one result computed here; with an inconsistent one (NaN      *)
(* between a number and a non-number) the order is implementation-        *)
(* defined, and the insertion below leaves an array in which no element   *)
(* compares less than its predecessor as it is, as V8's run detection     *)
(* does.                                                                  *)

\* (a, b) => Number(a) - Number(b)
cmpAttrReversed(a, b) ==
    IF Number(a) = Null \/ Number(b) = Null THEN 0
    ELSE Val(Number(b)) - Val(Number(a))

cmpAttr(a, b) ==
    IF Number(a) = Null \/ Number(b) = Null THEN 0
    ELSE Val(Number(a)) - Val(Number(b))

\* (a, b) => a.t - b.t
cmpPoint(a, b) == a.t - b.t

\* the order of the integer-like keys of an object
cmpIndex(a, b) == NumberTable[a] - NumberTable[b]

\* the call of the comparison function named cmp
Compare(cmp, a, b) ==
    IF cmp = "attr" THEN cmpAttr(a, b)
    ELSE IF cmp = "index" THEN cmpIndex(a, b)
    ELSE cmpPoint(a, b)

\* x goes right after the last element that does not compare greater than it
InsertSorted(sorted, x, cmp) ==
    LET le == {j \in 1..Len(sorted) : Compare(cmp, sorted[j], x) <= 0}
        pos == IF le = {} THEN 0 ELSE CHOOSE j \in le : \A k \in le : k <= j
    IN  SubSeq(sorted, 1, pos) \o <<x>> \o SubSeq(sorted, pos + 1, Len(sorted))

ArraySort(s, cmp) ==
    LET f[n \in 0..Len(s)] ==
            IF n = 0 THEN <<>> ELSE InsertSorted(f[n - 1], s[n], cmp)
    IN  f[Len(s)]

Reverse(s) == [n \in 1..Len(s) |-> s[Len(s) + 1 - n]]

\* a sort by time that does not keep equal times in their order
sortSeriesUnstable(series) == ArraySort(Reverse(series), "time")

\* byAttr[id].raw.sort(...) / byAttr[id].norm.sort(...)
sortSeries(series) == ArraySort(series, "time")

----------------------------------------------------------------------------
(* The object byAttr: its own properties in creation order, each            *)
(* [id, raw, norm]; other names resolve through Object.prototype.          *)

OwnIndex(byAttr, id) ==
    IF \E j \in 1..Len(byAttr) : byAttr[j].id = id
    THEN CHOOSE j \in 1..Len(byAttr) : byAttr[j].id = id
    ELSE 0

\* !byAttr[attrId] is false: an own series, or a value inherited from
\* Object.prototype (a function or the prototype object itself)
Truthy(byAttr, id) == OwnIndex(byAttr, id) # 0 \/ id \in ObjectPrototypeNames

\* Object.keys(byAttr): integer-like keys ascending, then the others in
\* creation order
Ids(byAttr) == [j \in 1..Len(byAttr) |-> byAttr[j].id]
IsOtherKey(s) == ~IsArrayIndex(s)
ObjectKeys(byAttr) ==
    ArraySort(SelectSeq(Ids(byAttr), IsArrayIndex), "index")
        \o SelectSeq(Ids(byAttr), IsOtherKey)

----------------------------------------------------------------------------
(* parseSmartLog *)

\* tMin == null ? t : Math.min(tMin, t), with a falsy test in place of == null
updateMinFalsy(tMin, t) ==
    IF tMin = Null \/ tMin = Some(0) THEN Some(t) ELSE Some(Min2(Val(tMin), t))

updateMin(tMin, t) == IF tMin = Null THEN Some(t) ELSE Some(Min2(Val(tMin), t))
updateMax(tMax, t) == IF tMax = Null THEN Some(t) ELSE Some(Max2(Val(tMax), t))

Point(t, n) == [t |-> t, v |-> Val(n)]

\* byAttr[attrId] = { id: attrId, raw: [], norm: [] }
create(byAttr, attrId) ==
    Append(byAttr, [id |-> attrId, raw |-> <<>>, norm |-> <<>>])

\* if (Number.isFinite(rawVal)) byAttr[attrId].raw.push({ t, v: rawVal })
pushRaw(byAttr, j, rawVal, t) ==
    IF IsFinite(rawVal) THEN [byAttr EXCEPT ![j].raw = Append(@, Point(t, rawVal))]
    ELSE byAttr

\* if (Number.isFinite(normVal)) byAttr[attrId].norm.push({ t, v: normVal })
pushNorm(byAttr, j, normVal, t) ==
    IF IsFinite(normVal) THEN [byAttr EXCEPT ![j].norm = Append(@, Point(t, normVal))]
    ELSE byAttr

\* Lines 189-190 on the value byAttr[attrId], own property number j of
\* byAttr or (j = 0) a value inherited from Object.prototype: that one has
\* no raw and no norm, and .push on undefined raises a TypeError.  One of
\* the two values is finite here, so one of the two pushes is evaluated.
store(acc, j, normVal, rawVal, t) ==
    IF j = 0 THEN [acc EXCEPT !.threw = TRUE]
    ELSE [acc EXCEPT !.byAttr = pushNorm(pushRaw(@, j, rawVal, t), j, normVal, t)]

\* lines 186-188: the series is created unless byAttr[attrId] is truthy
ensure(acc, attrId) ==
    IF Truthy(acc.byAttr, attrId) THEN acc
    ELSE [acc EXCEPT !.byAttr = create(@, attrId)]

stored(acc, attrId, normVal, rawVal, t) ==
    store(acc, OwnIndex(acc.byAttr, attrId), normVal, rawVal, t)

\* the triplet body with the skip test written with || instead of &&
tripletSkipEither(acc, attrId, normVal, rawVal, t) ==
    IF attrId = "" THEN acc
    ELSE IF ~IsFinite(normVal) \/ ~IsFinite(rawVal) THEN acc
    ELSE stored(ensure(acc, attrId), attrId, normVal, rawVal, t)

\* One pass of the inner loop body (lines 183-190) for a triplet with key
\* attrId and values normVal, rawVal of a row with timestamp t.
triplet(acc, attrId, normVal, rawVal, t) ==
    IF attrId = "" THEN acc
    ELSE IF ~IsFinite(normVal) /\ ~IsFinite(rawVal) THEN acc
    ELSE stored(ensure(acc, attrId), attrId, normVal, rawVal, t)

\* for (let i = 1; i + 2 < fields.length; i += 3), i counted from 0 in the
\* code and so fields[i] is fields[i + 1] here
RECURSIVE triplets(_, _, _, _)
triplets(acc, fields, t, i) ==
    IF acc.threw \/ ~(i + 2 < Len(fields)) THEN acc
    ELSE triplets(triplet(acc, fields[i + 1], Number(fields[i + 2]),
                          Number(fields[i + 3]), t),
                  fields, t, i + 3)

\* lines 174-175
bounds(acc, t) ==
    [acc EXCEPT !.tMin = updateMin(@, t), !.tMax = updateMax(@, t)]

\* rows++ done only when the row stored a sample
countRowIfSamples(before, after) ==
    IF after.threw \/ after.byAttr = before.byAttr THEN after
    ELSE [after EXCEPT !.rows = @ + 1]

\* rows++ (line 193), reached unless the inner loop raised
countRow(before, after) ==
    IF after.threw THEN after ELSE [after EXCEPT !.rows = @ + 1]

\* lines 171-193 for a row with fields and the timestamp t parsed from
\* fields[0]
lineAt(acc, fields, t) ==
    IF t = Null THEN acc
    ELSE countRow(acc, triplets(bounds(acc, Val(t)), fields, Val(t), 1))

\* lines 169-171
lineFields(acc, fields) ==
    IF Len(fields) < 4 THEN acc
    ELSE lineAt(acc, fields, parseTimestampToMs(fields[1]))

\* One pass of the outer loop body (lines 168-193).
lineStep(acc, line) == lineFields(acc, splitFields(line))

RECURSIVE scan(_, _)
scan(acc, lines) ==
    IF acc.threw \/ lines = <<>> THEN acc
    ELSE scan(lineStep(acc, Head(lines)), Tail(lines))

\* lines 198-201
sorted(byAttr) ==
    [j \in 1..Len(byAttr) |->
        [id |-> byAttr[j].id, raw |-> sortSeries(byAttr[j].raw),
         norm |-> sortSeries(byAttr[j].norm)]]

\* lines 196-203
finish(acc) ==
    IF acc.threw THEN [threw |-> TRUE]
    ELSE [threw |-> FALSE, byAttr |-> sorted(acc.byAttr),
          attrs |-> ArraySort(ObjectKeys(acc.byAttr), "attr"),
          rows |-> acc.rows, tMin |-> acc.tMin, tMax |-> acc.tMax]

\* The call parseSmartLog(text): [threw |-> TRUE] when it ends in an
\* exception, otherwise the Parsed it returns (byAttr, attrs, rows, tMin,
\* tMax) with threw |-> FALSE.
parseSmartLog(text) ==
    finish(scan([byAttr |-> <<>>, rows |-> 0, tMin |-> Null, tMax |-> Null,
                 threw |-> FALSE],
                NonBlankLines(text)))

----------------------------------------------------------------------------
(* Inputs *)

TS0 == "1970-01-01 00:00:00"
TS1 == "1970-01-01 00:00:01"
TS2 == "1970-01-01 00:00:02"

\* The lines texts are made of, each given by its fields between the ";".
LineWellFormed   == <<TS1, "\t1", " 67", " 5113173 ", "\t3", "96", "0", "">>
LineNonNumeric   == <<TS0, "5", "100", " N/A">>
LineEmptySlot    == <<TS2, "1", "", "5", "3", "96", "0">>
LineNotADate     == <<"not-a-date", "1", "67", "100", "">>
LineDateOnly     == <<"1970-01-02", "9", "1", "2">>
LineShort        == <<TS1, "1", "67">>
LineNoValues     == <<TS1, "1", "N/A", "x", " ">>
LineInherited    == <<TS1, "constructor", "1", "2">>
LineSixKeys      == <<TS2, "194", "30", "40", "9", "1", "2", "5", "100", "0",
                      "10", "1", "1", "3", "7", "7", "1", "8", "8">>
LineOddKeys      == <<TS1, "2", "1", "1", "abc", "1", "1", "01", "1", "1">>
LineBlank        == <<" ">>
LineTrailing     == <<TS0, "01", "68", "7", "9", "5">>
LineSameTime     == <<" 1970-01-01 00:00:01", "1", "66", "9", "3", "x", "8">>

Lines ==
    {LineWellFormed, LineNonNumeric, LineEmptySlot, LineNotADate, LineDateOnly,
     LineShort, LineNoValues, LineInherited, LineSixKeys, LineOddKeys,
     LineBlank, LineTrailing, LineSameTime}

\* Texts handed to the parser on its own: up to MaxLines lines.
Texts == UNION {[1..n -> Lines] : n \in 0..MaxLines}

\* Files offered to the file input of the page.
Files ==
    {<<>>,
     <<LineWellFormed>>,
     <<LineNoValues>>,
     <<LineInherited>>,
     <<LineNonNumeric, LineTrailing>>}

----------------------------------------------------------------------------
(* App: state and handlers *)

\* Array.from(new Set(s)): first occurrences, in order
Range(s) == {s[j] : j \in 1..Len(s)}
Includes(s, x) == \E j \in 1..Len(s) : s[j] = x

AddNew(s, x) == IF Includes(s, x) THEN s ELSE Append(s, x)

RECURSIVE Dedup(_)
Dedup(s) ==
    IF s = <<>> THEN <<>>
    ELSE AddNew(Dedup(SubSeq(s, 1, Len(s) - 1)), s[Len(s)])

Without(s, x) == LET Keep(y) == y # x IN SelectSeq(s, Keep)

\* p.attrs.slice(0, 5)
DefaultSelected == 5
Slice(s, n) == SubSeq(s, 1, Min2(n, Len(s)))

\* the selection array the state refers to
Selected == heap[selectedAttrs]

\* the Parsed object the state holds (its attrs array lives in the heap)
Result == [byAttr |-> Val(parsed).byAttr, attrs |-> heap.attrs,
           rows |-> Val(parsed).rows, tMin |-> Val(parsed).tMin,
           tMax |-> Val(parsed).tMax]

\* parsed.byAttr[attrId]?.raw ?? [] (kind "raw") and the same for norm
SeriesOf(byAttr, id, kind) ==
    IF OwnIndex(byAttr, id) = 0 THEN <<>>
    ELSE IF kind = "raw" THEN byAttr[OwnIndex(byAttr, id)].raw
    ELSE byAttr[OwnIndex(byAttr, id)].norm

Tag(series, id, kind) ==
    [j \in 1..Len(series) |-> [t |-> series[j].t, id |-> id, kind |-> kind, v |-> series[j].v]]

\* the points in the order the loops of chartData visit them: for each
\* selected attribute its raw series, then its norm series
RECURSIVE Visited(_, _)
Visited(byAttr, sel) ==
    IF sel = <<>> THEN <<>>
    ELSE Tag(SeriesOf(byAttr, Head(sel), "raw"), Head(sel), "raw")
         \o Tag(SeriesOf(byAttr, Head(sel), "norm"), Head(sel), "norm")
         \o Visited(byAttr, Tail(sel))

\* the row of timestamp t: row[`${attrId}_raw`] = p.v, a later point of the
\* same series and timestamp overwriting an earlier one
RowOf(pts, t) ==
    LET at == {j \in 1..Len(pts) : pts[j].t = t}
        last == {j \in at : \A k \in at :
                    (pts[k].id = pts[j].id /\ pts[k].kind = pts[j].kind) => k <= j}
    IN  [t |-> t, cells |-> {<<pts[j].id, pts[j].kind, pts[j].v>> : j \in last}]

Times(pts) == Dedup([j \in 1..Len(pts) |-> pts[j].t])

Rows(pts) ==
    ArraySort([j \in 1..Len(Times(pts)) |-> RowOf(pts, Times(pts)[j])], "time")

\* chartData (useMemo, lines 255-279): Array.from(map.values()) holds one
\* row per timestamp in the order the timestamps were first met, then the
\* rows are sorted by time.
chartDataOf(p, attrs, sel) ==
    IF p = Null \/ sel = <<>> THEN <<>>
    ELSE Rows(Visited(Val(p).byAttr, sel))

Init ==
    /\ chosen = Null
    /\ pending = EmptyBag
    /\ parsed = Null
    /\ heap = [attrs |-> <<>>, sel |-> <<>>]
    /\ selectedAttrs = "sel"
    /\ status = "Upload a log file to plot"
    /\ chartData = <<>>
    /\ lastText = Null
    /\ rejected = FALSE

\* onFileChange up to its await: the file's text is being read (a change
\* event without a file returns at once and changes nothing)
FileChosen(text) ==
    /\ BagCardinality(pending) < MaxPending
    /\ status' = "Loading..."
    /\ chosen' = Some(text)
    /\ pending' = pending (+) SetToBag({text})
    /\ UNCHANGED <<parsed, heap, selectedAttrs, chartData, lastText, rejected>>

\* the state updates of onFileChange after the parse, with the "no usable
\* data" test reduced to rows === 0
afterParseRowsOnly(h, p) ==
    IF p.rows = 0
    THEN [heap |-> [attrs |-> p.attrs, sel |-> <<>>],
          status |-> "No usable data found in file"]
    ELSE [heap |-> [attrs |-> p.attrs, sel |-> Slice(p.attrs, DefaultSelected)],
          status |-> "Ready"]

\* the state updates of onFileChange after the parse, without the two
\* setSelectedAttrs calls: the selection made under the previous file stays
afterParseKeepSelection(h, p) ==
    IF p.rows = 0 \/ Len(p.attrs) = 0
    THEN [heap |-> [attrs |-> p.attrs, sel |-> h.sel],
          status |-> "No usable data found in file"]
    ELSE [heap |-> [attrs |-> p.attrs, sel |-> h.sel],
          status |-> "Ready"]

\* the state updates of onFileChange after the parse (lines 291-301)
afterParse(h, p) ==
    IF p.rows = 0 \/ Len(p.attrs) = 0
    THEN [heap |-> [attrs |-> p.attrs, sel |-> <<>>],
          status |-> "No usable data found in file"]
    ELSE [heap |-> [attrs |-> p.attrs, sel |-> Slice(p.attrs, DefaultSelected)],
          status |-> "Ready"]

Stored(p) == Some([byAttr |-> p.byAttr, rows |-> p.rows, tMin |-> p.tMin,
                   tMax |-> p.tMax])

\* lines 291-301 with the result p of the parse and the updates u they make
updates(p, u) ==
    /\ parsed' = Stored(p)
    /\ heap' = u.heap
    /\ selectedAttrs' = "sel"
    /\ status' = u.status
    /\ chartData' = chartDataOf(Stored(p), u.heap.attrs, u.heap.sel)
    /\ UNCHANGED rejected

\* lines 288-301: setStatus("Parsing..."), then either the exception of
\* parseSmartLog rejects the promise of onFileChange, or the result is stored
resolved(p) ==
    IF p.threw
    THEN /\ status' = "Parsing..."
         /\ rejected' = TRUE
         /\ UNCHANGED <<parsed, heap, selectedAttrs, chartData>>
    ELSE updates(p, afterParse(heap, p))

\* onFileChange from its await on: f.text() resolved with text
onFileChange(text) ==
    /\ text \in BagToSet(pending)
    /\ pending' = pending (-) SetToBag({text})
    /\ UNCHANGED chosen
    /\ lastText' = Some(text)
    /\ resolved(parseSmartLog(text))

\* the checkbox update done on the array the state refers to
toggleInPlace(h, ref, id, on) ==
    [heap |-> [h EXCEPT ![ref] = IF on THEN Dedup(Append(@, id)) ELSE Without(@, id)],
     ref |-> ref]

\* setSelectedAttrs((prev) => ...) of the checkbox (lines 380-383): a new array
toggle(h, ref, id, on) ==
    [heap |-> [h EXCEPT !.sel = IF on THEN Dedup(Append(h[ref], id))
                                 ELSE Without(h[ref], id)],
     ref |-> "sel"]

toggled(u) ==
    /\ heap' = u.heap
    /\ selectedAttrs' = u.ref
    /\ chartData' = chartDataOf(parsed, u.heap.attrs, u.heap[u.ref])
    /\ UNCHANGED <<chosen, pending, parsed, status, lastText, rejected>>

\* a click on the checkbox of attribute id: ev.target.checked is the
\* opposite of the rendered checked
checkboxChange(id) ==
    /\ parsed # Null
    /\ Includes(heap.attrs, id)
    /\ toggled(toggle(heap, selectedAttrs, id, ~Includes(Selected, id)))

\* the button is disabled while !parsed || parsed.attrs.length === 0
selectAll ==
    /\ parsed # Null
    /\ Len(heap.attrs) > 0
    /\ selectedAttrs' = "attrs"
    /\ heap' = [heap EXCEPT !.sel = <<>>]
    /\ chartData' = chartDataOf(parsed, heap.attrs, heap.attrs)
    /\ UNCHANGED <<chosen, pending, parsed, status, lastText, rejected>>

\* the button is disabled while !parsed || selectedAttrs.length === 0
clearSelection ==
    /\ parsed # Null
    /\ Len(Selected) > 0
    /\ selectedAttrs' = "sel"
    /\ heap' = [heap EXCEPT !.sel = <<>>]
    /\ chartData' = <<>>
    /\ UNCHANGED <<chosen, pending, parsed, status, lastText, rejected>>

Next ==
    \/ \E text \in Files : FileChosen(text)
    \/ \E text \in BagToSet(pending) : onFileChange(text)
    \/ \E id \in Range(heap.attrs) : checkboxChange(id)
    \/ selectAll
    \/ clearSelection

Spec == Init /\ [][Next]_vars

\* The parser on its own: a file with any of the texts was chosen on the
\* fresh page and its read completes.
InitParse ==
    /\ \E text \in Texts : chosen = Some(text) /\ pending = SetToBag({text})
    /\ parsed = Null
    /\ heap = [attrs |-> <<>>, sel |-> <<>>]
    /\ selectedAttrs = "sel"
    /\ status = "Loading..."
    /\ chartData = <<>>
    /\ lastText = Null
    /\ rejected = FALSE

NextParse == \E text \in BagToSet(pending) : onFileChange(text)

SpecParse == InitParse /\ [][NextParse]_vars

----------------------------------------------------------------------------
(* What the claims speak of, stated on the text itself *)

\* the text of the parse the state shows the outcome of
Text == Val(lastText)

\* parseSmartLog was called and returned: the state holds its result
Returned == lastText # Null /\ parsed # Null /\ ~rejected

\* the non-empty trimmed fields of a line, by position between the ";"
Positions(line) == {i \in 1..Len(line) : Trim(line[i]) # ""}
FirstField(line) == Trim(line[CHOOSE i \in Positions(line) : \A k \in Positions(line) : i <= k])

\* YYYY-MM-DD HH:mm:ss
MatchesPattern(s) == s \in {TS0, TS1, TS2}

\* the instant a field 0 parses to, <<>> if it does not parse
Instant(s) ==
    IF MatchesPattern(s) THEN Some(1000 * (CHOOSE n \in 0..2 : s = <<TS0, TS1, TS2>>[n + 1]))
    ELSE IF s = "1970-01-02" THEN Some(24 * 3600 * 1000)
    ELSE Null

\* a non-blank line with at least 4 non-empty trimmed fields and a
\* parseable timestamp in field 0
Counted(line) ==
    /\ \E i \in 1..Len(line) : line[i] \notin {"", " ", "\t"}
    /\ Cardinality(Positions(line)) >= 4
    /\ Instant(FirstField(line)) # Null

CountedLines(text) == {i \in 1..Len(text) : Counted(text[i])}
TimeOf(line) == Val(Instant(FirstField(line)))

\* the complete triplets of a line with non-empty trimmed fields f (f[1]
\* is the timestamp): number j holds the fields 3j-1, 3j and 3j+1
NumericValue(s) == IF s \in DOMAIN NumberTable THEN Some(NumberTable[s]) ELSE Null
Triplets(f) == [j \in 1..((Len(f) - 1) \div 3) |-> j]
ValueField(f, j, kind) == NumericValue(f[IF kind = "raw" THEN 3 * j + 1 ELSE 3 * j])

Kinds == {"raw", "norm"}
KeysOf(p) == {p.byAttr[j].id : j \in 1..Len(p.byAttr)}
NoDuplicates(s) == \A i, j \in 1..Len(s) : s[i] = s[j] => i = j

----------------------------------------------------------------------------
(* C1 *)

\* C1: parseSmartLog never fails with an exception: whatever the text, also
\* one whose attribute key is a name an empty object inherits, the call
\* completes and returns a ParseResult.
C1_NeverThrows == lastText # Null => (~rejected /\ parsed # Null)

----------------------------------------------------------------------------
(* C2 *)

\* C2: the returned rows is the number of non-blank lines with at least 4
\* non-empty trimmed fields and a parseable timestamp in field 0, whether
\* or not the triplets of the line produced a sample.
C2_RowsCountsLines ==
    Returned => Result.rows = Cardinality(CountedLines(Text))

\* two rows are counted, none of the three lines gave a sample
C2_Witness ==
    /\ Returned
    /\ Len(Text) = 3
    /\ Result.rows = 2
    /\ Result.byAttr = <<>>

----------------------------------------------------------------------------
(* C3 *)

\* the triplets of a line by position between the ";": number k holds the
\* raw fields 3k-1 (key), 3k (norm) and 3k+1 (raw), field 1 the timestamp
Groups(line) == {k \in 1..6 : 3 * k + 1 <= Len(line)}
GroupKey(line, k) == Trim(line[3 * k - 1])
GroupValue(line, k, kind) ==
    NumericValue(Trim(line[IF kind = "raw" THEN 3 * k + 1 ELSE 3 * k]))

\* a value slot of some triplet is non-numeric or empty
HasDroppedSlot(line) ==
    \E k \in Groups(line) : \E kind \in Kinds :
        GroupKey(line, k) # "" /\ GroupValue(line, k, kind) = Null

Recorded(p, key, kind, t, v) ==
    \E j \in 1..Len(p.byAttr) :
        /\ p.byAttr[j].id = key
        /\ [t |-> t, v |-> v] \in Range(IF kind = "raw" THEN p.byAttr[j].raw
                                        ELSE p.byAttr[j].norm)

\* C3: a non-numeric or empty value slot drops only that slot: the row of
\* a line with a valid timestamp is counted, and every numeric slot of
\* every triplet of the line is recorded under the key of its own triplet.
C3_OnlyTheSlotIsDropped ==
    Returned =>
        \A i \in 1..Len(Text) :
            (Instant(Trim(Text[i][1])) # Null /\ HasDroppedSlot(Text[i])) =>
                /\ Result.rows >= 1
                /\ \A k \in Groups(Text[i]) : \A kind \in Kinds :
                       (GroupKey(Text[i], k) # "" /\ GroupValue(Text[i], k, kind) # Null) =>
                           Recorded(Result, GroupKey(Text[i], k), kind,
                                    Val(Instant(Trim(Text[i][1]))),
                                    Val(GroupValue(Text[i], k, kind)))

----------------------------------------------------------------------------
(* C4 *)

RemoveAt(text, i) == SubSeq(text, 1, i - 1) \o SubSeq(text, i + 1, Len(text))

\* fewer than 4 non-empty fields, or a field 0 that is not YYYY-MM-DD HH:mm:ss
Unusable(line) ==
    \/ Cardinality(Positions(line)) < 4
    \/ ~MatchesPattern(FirstField(line))

\* C4: a line with fewer than 4 non-empty fields, or whose field 0 does not
\* match YYYY-MM-DD HH:mm:ss, contributes nothing: the result is the one of
\* the text without that line.
C4_UnusableLineContributesNothing ==
    Returned =>
        \A i \in 1..Len(Text) :
            Unusable(Text[i]) =>
                parseSmartLog(RemoveAt(Text, i)) =
                    [threw |-> FALSE, byAttr |-> Result.byAttr, attrs |-> Result.attrs,
                     rows |-> Result.rows, tMin |-> Result.tMin, tMax |-> Result.tMax]

----------------------------------------------------------------------------
(* C5 *)

CountedTimes(text) == {TimeOf(text[i]) : i \in CountedLines(text)}
Least(S) == CHOOSE x \in S : \A y \in S : x <= y
Greatest(S) == CHOOSE x \in S : \A y \in S : x >= y
SampleTimes(p) ==
    UNION {{p.byAttr[j].raw[n].t : n \in 1..Len(p.byAttr[j].raw)}
             \cup {p.byAttr[j].norm[n].t : n \in 1..Len(p.byAttr[j].norm)} :
           j \in 1..Len(p.byAttr)}

\* C5: tMin and tMax are the least and the greatest timestamp of the
\* counted rows, whatever data those rows had; both are absent exactly
\* when rows is 0, and tMin <= tMax when present.
C5_TimeBounds ==
    Returned =>
        /\ (Result.rows = 0) <=> (Result.tMin = Null)
        /\ (Result.rows = 0) <=> (Result.tMax = Null)
        /\ Result.rows > 0 =>
              /\ Result.tMin = Some(Least(CountedTimes(Text)))
              /\ Result.tMax = Some(Greatest(CountedTimes(Text)))
              /\ Val(Result.tMin) <= Val(Result.tMax)

\* the bounds differ, the least is instant 0, and the greatest comes from
\* a row that gave no sample
C5_Witness ==
    /\ Returned
    /\ Result.tMin = Some(0)
    /\ Val(Result.tMax) > 0
    /\ Val(Result.tMax) \notin SampleTimes(Result)

----------------------------------------------------------------------------
(* C6 *)

Numeric(key) == NumericValue(key) # Null

\* attrs has no duplicates and holds exactly the keys of byAttr
AttrsAreTheKeys(p) == NoDuplicates(p.attrs) /\ Range(p.attrs) = KeysOf(p)

\* no key comes before a key of smaller numeric value
AscendingByNumber(attrs) ==
    \A i, j \in 1..Len(attrs) :
        (i < j /\ Numeric(attrs[i]) /\ Numeric(attrs[j])) =>
            Val(NumericValue(attrs[i])) <= Val(NumericValue(attrs[j]))

\* C6 as stated: in every ParseResult attrs has no duplicates, holds exactly
\* the keys of the mapping, and is ascending by the numeric value of the key.
C6_AttrsAscendingAlways ==
    Returned => (AttrsAreTheKeys(Result) /\ AscendingByNumber(Result.attrs))

\* C6 as amended: in every ParseResult attrs has no duplicates and holds
\* exactly the keys of the mapping; when every key has a numeric value
\* (none converts to NaN), attrs is ascending by the numeric value of the
\* key, not by discovery order or string comparison.
C6_AttrsAscendingWhenNumeric ==
    Returned =>
        /\ AttrsAreTheKeys(Result)
        /\ (\A key \in KeysOf(Result) : Numeric(key)) => AscendingByNumber(Result.attrs)

\* keys discovered as 194, 9, 5, 10, ... in one row and 01 in another are
\* listed by number: 01 before 5, 9 before 10, 10 before 194
C6_Witness ==
    /\ Returned
    /\ Text = <<LineSixKeys, LineTrailing>>
    /\ Result.attrs = <<"1", "01", "3", "5", "9", "10", "194">>

----------------------------------------------------------------------------
(* C7 *)

\* the samples a line with fields f and timestamp t gives to (key, kind),
\* in the order of its triplets
LineSamples(f, t, key, kind) ==
    LET Gives(j) == f[3 * j - 1] = key /\ ValueField(f, j, kind) # Null
        js == SelectSeq(Triplets(f), Gives)
    IN  [n \in 1..Len(js) |-> [t |-> t, v |-> Val(ValueField(f, js[n], kind))]]

\* the samples of (key, kind) in their order of appearance in the text
RECURSIVE Appearance(_, _, _)
Appearance(text, key, kind) ==
    IF text = <<>> THEN <<>>
    ELSE IF Counted(Head(text))
    THEN LineSamples(splitFields(Head(text)), TimeOf(Head(text)), key, kind)
            \o Appearance(Tail(text), key, kind)
    ELSE Appearance(Tail(text), key, kind)

\* s is the stable sort by timestamp of a: same length, times
\* non-decreasing, and s[n] is a[Origin(n)], where positions of a are
\* ranked by time and, for equal times, by position
Rank(a, m) ==
    1 + Cardinality({k \in 1..Len(a) : a[k].t < a[m].t \/ (a[k].t = a[m].t /\ k < m)})
IsStableSortOf(s, a) ==
    /\ Len(s) = Len(a)
    /\ \A n \in 1..Len(s) : n > 1 => s[n - 1].t <= s[n].t
    /\ \A m \in 1..Len(a) : s[Rank(a, m)] = a[m]

SeriesIn(p, key, kind) == SeriesOf(p.byAttr, key, kind)

\* C7: for every key of the result, raw and norm are each the stable sort
\* by timestamp of the samples in their order of appearance in the input:
\* times non-decreasing, duplicates kept, equal times in scan order.
C7_SeriesStablySorted ==
    Returned =>
        \A key \in KeysOf(Result) : \A kind \in Kinds :
            IsStableSortOf(SeriesIn(Result, key, kind), Appearance(Text, key, kind))

\* three rows of key 1 given latest first: the row of time 2000 moves to
\* the end and the two samples of time 1000 keep their order
C7_Witness ==
    /\ Returned
    /\ Text = <<LineEmptySlot, LineWellFormed, LineSameTime>>
    /\ SeriesIn(Result, "1", "raw") =
           <<[t |-> 1000, v |-> 5113173], [t |-> 1000, v |-> 9], [t |-> 2000, v |-> 3]>>

----------------------------------------------------------------------------
(* C8 *)

Count(s, x) == Cardinality({n \in 1..Len(s) : s[n] = x})
SameMultiset(s, a) == \A x \in Range(s) \cup Range(a) : Count(s, x) = Count(a, x)

\* the keys of the complete triplets of the counted rows
LineKeys(f) == {f[3 * j - 1] : j \in 1..((Len(f) - 1) \div 3)}
AllKeys(text) ==
    UNION {LineKeys(splitFields(text[i])) : i \in CountedLines(text)}

\* C8: for every key the samples of raw are, as a multiset, the (row
\* timestamp, raw value) of the complete triplets with that key in counted
\* rows whose raw field is a finite number, and likewise for norm; the two
\* are filled independently; a key is in the result exactly when one of its
\* triplets had a finite value, so every key of attrs has a sample.
C8_SamplesAreTheFiniteSlots ==
    Returned =>
        /\ \A key \in AllKeys(Text) \cup KeysOf(Result) : \A kind \in Kinds :
               SameMultiset(SeriesIn(Result, key, kind), Appearance(Text, key, kind))
        /\ KeysOf(Result) =
               {key \in AllKeys(Text) :
                   \E kind \in Kinds : Appearance(Text, key, kind) # <<>>}
        /\ \A n \in 1..Len(Result.attrs) :
               Len(SeriesIn(Result, Result.attrs[n], "raw"))
                   + Len(SeriesIn(Result, Result.attrs[n], "norm")) >= 1

\* key 5 has a norm sample and no raw sample, the triplet of key 1 without
\* a numeric value made no series, and the trailing group 9; 5 added nothing
C8_Witness ==
    /\ Returned
    /\ Text = <<LineNonNumeric, LineNoValues, LineTrailing>>
    /\ Result.attrs = <<"01", "5">>
    /\ SeriesIn(Result, "5", "raw") = <<>>
    /\ SeriesIn(Result, "5", "norm") = <<[t |-> 0, v |-> 100]>>

----------------------------------------------------------------------------
(* C9 *)

\* a step other than the completion of an upload
NoCompletion == BagCardinality(pending') >= BagCardinality(pending)

\* C9: the ParseResult is immutable after the parse: no checkbox toggle,
\* Select all, Clear or chart-data projection changes byAttr, attrs, rows,
\* tMin or tMax of the current result, also when the selection is the
\* result's own attrs array.
C9_ResultImmutable ==
    [][(parsed # Null /\ NoCompletion) => (parsed' # Null /\ Result' = Result)]_vars

\* after toggles the selection holds the keys of attrs in another order,
\* the chart shows them, and attrs is as parsed
C9_Witness ==
    /\ parsed # Null
    /\ ~rejected
    /\ Len(heap.attrs) >= 2
    /\ Range(Selected) = Range(heap.attrs)
    /\ Selected # heap.attrs
    /\ chartData # <<>>
    /\ heap.attrs = parseSmartLog(Text).attrs

----------------------------------------------------------------------------
(* C10 *)

FirstFive(attrs) == [n \in 1..(IF Len(attrs) < 5 THEN Len(attrs) ELSE 5) |-> attrs[n]]

\* C10: when an upload completes with a ParseResult of zero rows or an
\* empty attribute list, the page ends in 'No usable data found in file'
\* with an empty selection and nothing thrown; otherwise it ends in 'Ready'
\* with the first (up to) 5 keys of attrs selected.
C10_StatusAfterUpload ==
    Returned =>
        IF Result.rows = 0 \/ Result.attrs = <<>>
        THEN status = "No usable data found in file" /\ Selected = <<>> /\ ~rejected
        ELSE status = "Ready" /\ Selected = FirstFive(Result.attrs)

\* rows were counted and no triplet gave a sample
C10_Witness ==
    /\ Returned
    /\ Result.rows > 0
    /\ Result.attrs = <<>>
    /\ status = "No usable data found in file"
    /\ Selected = <<>>

----------------------------------------------------------------------------
(* C11 *)

\* what the page displays: the ParseResult, the status and the selection
Shown == [parsed |-> parsed, attrs |-> heap.attrs, status |-> status,
          selection |-> Selected]

\* what an upload of the text alone displays once it has completed
DerivedFrom(text) ==
    LET p == parseSmartLog(text)
    IN  IF p.threw THEN [threw |-> TRUE]
        ELSE [threw |-> FALSE,
              shown |-> [parsed |-> Stored(p), attrs |-> p.attrs,
                         status |-> afterParse(heap, p).status,
                         selection |-> afterParse(heap, p).heap.sel]]

\* the completion of the last pending upload
LastCompletion == pending # EmptyBag /\ pending' = EmptyBag

\* C11: for any interleaving of file selections and file-read completions
\* (a second file may be chosen while the first is still loading), once all
\* pending uploads have completed the displayed ParseResult, status and
\* selection are those derived from the most recently selected file.  Stated
\* for uploads none of whose parses has thrown (what a parse that throws
\* leaves displayed is C1).
C11_LastChosenShown ==
    [][(LastCompletion /\ ~rejected') =>
        /\ ~DerivedFrom(Val(chosen')).threw
        /\ Shown' = DerivedFrom(Val(chosen')).shown]_vars

\* the same for completions in the order of selection: the last read to
\* complete is that of the most recently selected file
C11_InOrder ==
    [][(LastCompletion /\ ~rejected' /\ lastText' = chosen') =>
        /\ ~DerivedFrom(Val(chosen')).threw
        /\ Shown' = DerivedFrom(Val(chosen')).shown]_vars

----------------------------------------------------------------------------
(* C12 *)

DefaultKeys(text) ==
    IF parseSmartLog(text).threw THEN {}
    ELSE Range(afterParse(heap, parseSmartLog(text)).heap.sel)

====
